---- MODULE Spec2Model ----
(***************************************************************************)
(* A model of state.py: the parser of the STATES table, the Subgraph       *)
(* class (the Cluster Builder) and the top-level orchestration that emits  *)
(* the error-path clusters and the start-state clusters.                   *)
(*                                                                         *)
(* Strings are TLA+ strings; "\\n" is the two characters backslash, n, as  *)
(* in the Python source, and "\n" is the newline character.                *)
(***************************************************************************)
EXTENDS Integers, Sequences, FiniteSets, TLC

VARIABLES
    pc,          \* position of the script
    lines,       \* open("STATES").readlines()
    li,          \* index of the next line the parser loop reads
    base_state,  \* state.py:14
    trans,       \* state.py:8, the Transition Set
    start,       \* state.py:32, the sorted Start States
    count,       \* Subgraph.count
    seen,        \* Subgraph.seen
    nonsink,     \* Subgraph.nonsink
    cur,         \* local cur of Subgraph.start
    start_trans, \* argument start_trans of the running Subgraph.start
    do_nop,      \* argument do_nop of the running Subgraph.start
    do_unusual,  \* argument do_unusual of the running Subgraph.start
    ret,         \* where the running Subgraph.start returns to
    stdout,      \* everything printed so far, one record per line
    cluster_cnt, \* state.py:88
    ui,          \* index in unusual of the loop at state.py:93
    res,         \* state.py:94, the grouping of the current unusual input
    keys,        \* sorted(res.keys()) of the loop at state.py:109
    ki,          \* index in keys of the loop at state.py:109
    si,          \* index in start of the loop at state.py:116
    ti,          \* index in trans of the loop at state.py:120
    visited      \* history: the values of cur the running start has visited

vars == <<pc, lines, li, base_state, trans, start, count, seen, nonsink, cur,
          start_trans, do_nop, do_unusual, ret, stdout, cluster_cnt, ui, res,
          keys, ki, si, ti, visited>>

(***************************************************************************)
(* Bounds of the model.                                                    *)
(***************************************************************************)
MaxTrans == 3
MaxLines == 3
MaxInvocations == 2

(***************************************************************************)
(* Python values and string helpers.                                       *)
(***************************************************************************)
\* Python's None; no name over [A-Z_]+ equals it.
None == "None"

Range(q) == {q[k] : k \in 1..Len(q)}

\* s[k-1:k] of Python: the k-th character, "" outside the string
CharAt(s, k) == IF k >= 1 /\ k <= Len(s) THEN SubSeq(s, k, k) ELSE ""

\* sub in s, for Python strings
Contains(s, sub) ==
    \E k \in 1..(Len(s) - Len(sub) + 1) : SubSeq(s, k, k + Len(sub) - 1) = sub

Upper == "ABCDEFGHIJKLMNOPQRSTUVWXYZ"

\* ord(c) for the characters of [A-Z_] and the backslash and n of a joined label
Ord(c) ==
    IF c = "_" THEN 95
    ELSE IF c = "\\" THEN 92
    ELSE IF c = "n" THEN 110
    ELSE 64 + (CHOOSE k \in 1..26 : CharAt(Upper, k) = c)

RECURSIVE StrLessFrom(_, _, _)
StrLessFrom(a, b, k) ==
    IF k > Len(b) THEN FALSE
    ELSE IF k > Len(a) THEN TRUE
    ELSE IF CharAt(a, k) = CharAt(b, k) THEN StrLessFrom(a, b, k + 1)
    ELSE Ord(CharAt(a, k)) < Ord(CharAt(b, k))

\* a < b for Python 2 str
StrLess(a, b) == StrLessFrom(a, b, 1)

\* a < b where either may be None: in Python 2 None sorts before every string
OptLess(a, b) ==
    IF a = None THEN b # None
    ELSE IF b = None THEN FALSE
    ELSE StrLess(a, b)

\* k1 < k2 for the tuples (to_state, pkt) that are the keys of res
KeyLess(k1, k2) ==
    \/ StrLess(k1[1], k2[1])
    \/ k1[1] = k2[1] /\ OptLess(k1[2], k2[2])

\* SortedStrSet in descending order
RECURSIVE SortedStrSet_Desc(_)
SortedStrSet_Desc(S) ==
    IF S = {} THEN <<>>
    ELSE LET m == CHOOSE x \in S : \A y \in S : ~StrLess(x, y)
         IN  <<m>> \o SortedStrSet_Desc(S \ {m})

RECURSIVE SortedStrSet(_)
SortedStrSet(S) ==
    IF S = {} THEN <<>>
    ELSE LET m == CHOOSE x \in S : \A y \in S : ~StrLess(y, x)
         IN  <<m>> \o SortedStrSet(S \ {m})

RECURSIVE SortedKeySet(_)
SortedKeySet(S) ==
    IF S = {} THEN <<>>
    ELSE LET m == CHOOSE x \in S : \A y \in S : ~KeyLess(y, x)
         IN  <<m>> \o SortedKeySet(S \ {m})

RECURSIVE InsertSorted(_, _)
InsertSorted(x, q) ==
    IF q = <<>> THEN <<x>>
    ELSE IF StrLess(Head(q), x) THEN <<Head(q)>> \o InsertSorted(x, Tail(q))
    ELSE <<x>> \o q

\* sorted(q) for a list of strings
RECURSIVE SortedList(_)
SortedList(q) ==
    IF q = <<>> THEN <<>> ELSE InsertSorted(Head(q), SortedList(Tail(q)))

\* sep.join(q)
RECURSIVE Join(_, _)
Join(sep, q) ==
    IF q = <<>> THEN ""
    ELSE IF Len(q) = 1 THEN q[1]
    ELSE q[1] \o sep \o Join(sep, Tail(q))

(***************************************************************************)
(* Program constants.                                                      *)
(***************************************************************************)
\* state.py:34
unusual ==
    << "BITCOIN_ANCHOR_OTHERSPEND", "BITCOIN_ANCHOR_OURCOMMIT_DELAYPASSED",
       "BITCOIN_ANCHOR_THEIRSPEND", "BITCOIN_ANCHOR_TIMEOUT",
       "BITCOIN_ANCHOR_UNSPENT", "PKT_ERROR", "PKT_CLOSE", "CMD_CLOSE" >>

(***************************************************************************)
(* The two regular expressions, state.py:5-6.  Both are matched from the   *)
(* start of the line; the character classes of adjacent parts are          *)
(* disjoint, so the greedy scan below finds the match if there is one.     *)
(***************************************************************************)
\* [A-Z_]
NameChar(c) == c = "_" \/ \E k \in 1..26 : CharAt(Upper, k) = c

\* chr(11), the vertical tab "\v" of Python: the one character between the quotes
VTab == ""

\* \s of a Python 2 str pattern: chr(9), 10, 11, 12, 13 and 32
SpaceChar(c) == c \in {" ", "\t", "\n", VTab, "\f", "\r"}

\* the first position from k on that holds no character of [A-Z_]
RECURSIVE SkipName(_, _)
SkipName(l, k) == IF NameChar(CharAt(l, k)) THEN SkipName(l, k + 1) ELSE k

\* the first position from k on that holds no \s character
RECURSIVE SkipSpaces(_, _)
SkipSpaces(l, k) == IF SpaceChar(CharAt(l, k)) THEN SkipSpaces(l, k + 1) ELSE k

\* $ at position k: the end of the string, or just before a final newline
AtEnd(l, k) == k = Len(l) + 1 \/ (k = Len(l) /\ CharAt(l, k) = "\n")

\* re_state.match(l), state.py:5 and 16: the groups, or <<>> for no match
MatchState(l) ==
    LET e == SkipName(l, 1)
    IN  IF e > 1 /\ CharAt(l, e) = ":" /\ AtEnd(l, e + 1)
        THEN <<SubSeq(l, 1, e - 1)>>
        ELSE <<>>

\* re_trans.match(l), state.py:6 and 20: the groups 1, 2 and 4, or <<>> for no match
MatchTrans(l) ==
    LET a == SkipSpaces(l, 1)
        b == SkipName(l, a)
        c == SkipSpaces(l, b)
        d == SkipSpaces(l, c + 2)
        e == SkipName(l, d)
        f == SkipSpaces(l, e)
        g == SkipName(l, f + 1)
        h == SkipSpaces(l, g + 1)
        arrow == CharAt(l, c) = "-" /\ CharAt(l, c + 1) = ">"
        group == f > e /\ CharAt(l, f) = "(" /\ g > f + 1 /\ CharAt(l, g) = ")"
    IN  IF a > 1 /\ b > a /\ arrow /\ e > d
        THEN IF group /\ h = Len(l) + 1
             THEN <<SubSeq(l, a, b - 1), SubSeq(l, d, e - 1), SubSeq(l, f + 1, g - 1)>>
             ELSE IF f = Len(l) + 1
             THEN <<SubSeq(l, a, b - 1), SubSeq(l, d, e - 1), None>>
             ELSE <<>>
        ELSE <<>>

\* state.py:25
ErrorLine(l) ==
    [kind |-> "error", arg |-> l, text |-> "ERROR: could not parse " \o l]

(***************************************************************************)
(* Lines 27-32: the states of the Transition Set and the Start States.     *)
(***************************************************************************)
\* state.py:27-30
StatesOf(tr) == {tr[k][1] : k \in 1..Len(tr)} \cup {tr[k][2] : k \in 1..Len(tr)}

\* the condition of the generator at state.py:32
IsStart(s) == Contains(s, "INIT") \/ Contains(s, "NORMAL")

\* state.py:32 raises TypeError when a state is None ("INIT" in None)
StartRaises(tr) == None \in StatesOf(tr)

\* state.py:32
StartOf(tr) == SortedStrSet({s \in StatesOf(tr) : IsStart(s)})

(***************************************************************************)
(* The printed lines.  Each is a record: text is the line as printed, the  *)
(* other fields say what the line is about.                                *)
(***************************************************************************)
\* a line printed by the orchestration (state.py:90-91, 105-107, 114, 118-119, 124, 126)
TextLine(kind, arg, txt) == [kind |-> kind, arg |-> arg, text |-> txt]

\* state.py:78 and state.py:81
NodeLine(id, label, key, inv) ==
    [kind |-> "node", id |-> id, label |-> label, key |-> key, inv |-> inv,
     text |-> " " \o id \o " [label=\"" \o label \o "\"];"]

\* state.py:83
EdgeLine(i, o, lbl, t, first, inv) ==
    [kind |-> "edge", i |-> i, o |-> o, lbl |-> lbl, t |-> t, first |-> first,
     inv |-> inv,
     text |-> "   " \o i \o " -> " \o o \o " [label=\"" \o lbl \o "\"];"]

\* state.py:60
SinkLine(key, inv) ==
    [kind |-> "sink", id |-> key \o "_" \o ToString(inv), key |-> key, inv |-> inv,
     text |-> " " \o key \o "_" \o ToString(inv) \o " [color=coral, style=filled];"]

(***************************************************************************)
(* class Subgraph.  The operators work on a record s with the fields       *)
(* count, seen, nonsink of the object and stdout, the lines printed.       *)
(***************************************************************************)
\* "_O" if first else ""
Ext(first) == IF first THEN "_O" ELSE ""

\* state.py:64-66
Label(t) ==
    IF Len(t) = 4 /\ t[4] # None
    THEN "<" \o t[3] \o "\\n>" \o t[4]
    ELSE "<" \o t[3]

\* state.py:68, 71-72
SrcId(t, cnt, first) ==
    LET i == t[1] \o "_" \o ToString(cnt) \o Ext(first)
    IN  IF Contains(i, "\\n") THEN "_" \o ToString(cnt) \o Ext(first) ELSE i

\* state.py:69
DstId(t, cnt) == t[2] \o "_" \o ToString(cnt)

\* the key of the source of t in seen and nonsink, state.py:74-77
SrcKey(t, first) == t[1] \o Ext(first)

\* MarkNonsink with the destination marked instead of the source
MarkNonsink_Dst(s, t, first) == [s EXCEPT !.nonsink = @ \cup {t[2]}]

\* state.py:74
MarkNonsink(s, t, first) == [s EXCEPT !.nonsink = @ \cup {SrcKey(t, first)}]

\* state.py:76-78
DeclareSrc(s, t, first) ==
    IF SrcKey(t, first) \notin Range(s.seen)
    THEN [s EXCEPT !.seen = Append(@, SrcKey(t, first)),
                   !.stdout = Append(@, NodeLine(SrcId(t, s.count, first), t[1],
                                                 SrcKey(t, first), s.count))]
    ELSE s

\* DeclareDst without the membership test: the destination is always appended
DeclareDst_Always(s, t) ==
    [s EXCEPT !.seen = Append(@, t[2]),
              !.stdout = Append(@, NodeLine(t[2] \o "_" \o ToString(s.count), t[2],
                                            t[2], s.count))]

\* state.py:79-81
DeclareDst(s, t) ==
    IF t[2] \notin Range(s.seen)
    THEN [s EXCEPT !.seen = Append(@, t[2]),
                   !.stdout = Append(@, NodeLine(DstId(t, s.count), t[2], t[2],
                                                 s.count))]
    ELSE s

\* state.py:83
PrintEdge(s, t, first) ==
    [s EXCEPT !.stdout = Append(@, EdgeLine(SrcId(t, s.count, first),
                                            DstId(t, s.count), Label(t), t,
                                            first, s.count))]

\* Subgraph.out, state.py:62-83
Out(s, t, first) ==
    PrintEdge(DeclareDst(DeclareSrc(MarkNonsink(s, t, first), t, first), t), t, first)

\* Reset that keeps the seen-list and the nonsink-set of the call before
Reset_NoClear(s) == [s EXCEPT !.count = @ + 1]

\* Reset that leaves the counter as it is
Reset_NoIncrement(s) == [s EXCEPT !.seen = <<>>, !.nonsink = {}]

\* state.py:41-43
Reset(s) == [s EXCEPT !.seen = <<>>, !.nonsink = {}, !.count = @ + 1]

\* Begin with the self-loop skip applied to the starting transition too
Begin_SelfLoopSkipped(s, t) == IF t[1] = t[2] THEN Reset(s) ELSE Out(Reset(s), t, TRUE)

\* state.py:41-45
Begin(s, t) == Out(Reset(s), t, TRUE)

\* Skipped that does not look at the flags
Skipped_IgnoreFlags(t, nop, unu) == t[1] = t[2] \/ t[3] \in Range(unusual)

\* Skipped without the self-loop test
Skipped_NoSelfLoopTest(t, nop, unu) == t[3] \in Range(unusual) /\ ~unu

\* the two skip tests of the expansion, state.py:52-53
Skipped(t, nop, unu) ==
    \/ t[1] = t[2] /\ ~nop
    \/ t[3] \in Range(unusual) /\ ~unu

\* the for loop at state.py:51-55, from the k-th transition on
RECURSIVE ForTrans(_, _, _, _, _, _)
ForTrans(s, tr, st, k, nop, unu) ==
    IF k > Len(tr) THEN s
    ELSE IF Skipped(tr[k], nop, unu) THEN ForTrans(s, tr, st, k + 1, nop, unu)
    ELSE IF st = tr[k][1] THEN ForTrans(Out(s, tr[k], FALSE), tr, st, k + 1, nop, unu)
    ELSE ForTrans(s, tr, st, k + 1, nop, unu)

\* one iteration of the while loop for the entry st = seen[cur], state.py:49-55;
\* strt is the global list start
Visit(s, tr, strt, st, nop, unu) ==
    IF st \notin Range(strt) THEN ForTrans(s, tr, st, 1, nop, unu) ELSE s

\* the while loop at state.py:47-56 from cur = c on (seen[c] is s.seen[c + 1])
RECURSIVE While(_, _, _, _, _, _)
While(s, tr, strt, c, nop, unu) ==
    IF c < Len(s.seen)
    THEN While(Visit(s, tr, strt, s.seen[c + 1], nop, unu), tr, strt, c + 1, nop, unu)
    ELSE s

\* the loop at state.py:58-60, from the k-th entry of seen on
RECURSIVE Sinks(_, _)
Sinks(s, k) ==
    IF k > Len(s.seen) THEN s
    ELSE IF s.seen[k] \in s.nonsink THEN Sinks(s, k + 1)
    ELSE Sinks([s EXCEPT !.stdout = Append(@, SinkLine(s.seen[k], s.count))], k + 1)

\* Subgraph.start as a whole, state.py:40-60
StartAll(s, t, tr, strt, nop, unu) ==
    Sinks(While(Begin(s, t), tr, strt, 1, nop, unu), 1)

\* Subgraph.__init__, state.py:37-38, with nothing printed
NewSubgraph == [count |-> 0, seen |-> <<>>, nonsink |-> {}, stdout |-> <<>>]

(***************************************************************************)
(* The grouping of the error-path loop, state.py:94-100 and 109-111.       *)
(***************************************************************************)
\* state.py:97
Pkt(t) == IF Len(t) = 3 THEN None ELSE t[4]

\* state.py:98
KeyOf(t) == <<t[2], Pkt(t)>>

\* res.keys() after the loop at state.py:95-100
GroupKeys(tr, u) == {KeyOf(tr[k]) : k \in {j \in 1..Len(tr) : tr[j][3] = u}}

\* FromsOf without the test of the key: every origin of the input u
RECURSIVE FromsOf_AnyKey(_, _, _, _)
FromsOf_AnyKey(tr, u, key, k) ==
    IF k > Len(tr) THEN <<>>
    ELSE IF tr[k][3] = u
         THEN <<tr[k][1]>> \o FromsOf_AnyKey(tr, u, key, k + 1)
         ELSE FromsOf_AnyKey(tr, u, key, k + 1)

\* res[key] after the loop at state.py:95-100, from the k-th transition on
RECURSIVE FromsOf(_, _, _, _)
FromsOf(tr, u, key, k) ==
    IF k > Len(tr) THEN <<>>
    ELSE IF tr[k][3] = u /\ KeyOf(tr[k]) = key
         THEN <<tr[k][1]>> \o FromsOf(tr, u, key, k + 1)
         ELSE FromsOf(tr, u, key, k + 1)

\* res after the loop at state.py:95-100
ResOf(tr, u) == [key \in GroupKeys(tr, u) |-> FromsOf(tr, u, key, 1)]

\* the origin label, state.py:110
OriginLabel(froms) == Join("\\n", SortedList(froms))

\* start_trans of state.py:110-111
GroupStart(r, key, u) ==
    IF key[2] # None
    THEN <<OriginLabel(r[key]), key[1], u, key[2]>>
    ELSE <<OriginLabel(r[key]), key[1], u>>

(***************************************************************************)
(* The Transition Sets the model runs on.                                  *)
(***************************************************************************)
TransUniverse ==
    { <<"INIT", "A", "X", "P">>,
      <<"A", "B", "X", None>>,
      <<"B", "A", "Y", None>>,
      <<"A", "A", "X", None>>,
      <<"A", "INIT", "Y", None>>,
      <<"A", "B", "PKT_ERROR", None>>,
      <<"INIT", "B", "PKT_ERROR", None>>,
      <<"B", "A", "PKT_ERROR", "P">>,
      <<"B", "A", "PKT_CLOSE", "P">>,
      <<"INIT", "INIT", "X", None>>,
      <<"INIT", "INIT_O", "X", None>> }

TransSets == UNION {[1..n -> TransUniverse] : n \in 0..MaxTrans}

\* the records the calls of Subgraph.start on their own are run on: a cycle, a
\* self-loop, a way back to a Start State, unusual inputs, two origins of one
\* group, an output, and a state whose name is an origin key
BuilderUniverse ==
    TransUniverse \ { <<"B", "A", "PKT_ERROR", "P">>,
                      <<"B", "A", "PKT_CLOSE", "P">>,
                      <<"INIT", "INIT", "X", None>> }

BuilderSets == UNION {[1..n -> BuilderUniverse] : n \in 0..MaxTrans}

\* a STATES table that the parser loop turns into tr: for each transition a
\* state line and a transition line
RECURSIVE FileOf(_)
FileOf(tr) ==
    IF tr = <<>> THEN <<>>
    ELSE << tr[1][1] \o ":\n",
            "  " \o tr[1][3] \o " -> " \o tr[1][2] \o
                (IF tr[1][4] # None THEN " (" \o tr[1][4] \o ")" ELSE "") \o "\n" >>
         \o FileOf(Tail(tr))

(***************************************************************************)
(* The state machine.                                                      *)
(***************************************************************************)
\* the Subgraph object sg and the printed lines, as one record
Obj == [count |-> count, seen |-> seen, nonsink |-> nonsink, stdout |-> stdout]

SetObj(s) ==
    /\ count' = s.count
    /\ seen' = s.seen
    /\ nonsink' = s.nonsink
    /\ stdout' = s.stdout

\* a call sg.start(t, trans, nop, unu) up to the while loop, state.py:40-47
Call(s, t, nop, unu, back) ==
    /\ SetObj(Begin(s, t))
    /\ cur' = 1
    /\ start_trans' = t
    /\ do_nop' = nop
    /\ do_unusual' = unu
    /\ ret' = back
    /\ visited' = <<>>
    /\ pc' = "expand"

\* one iteration of the while loop, state.py:48-56
Expand ==
    /\ pc = "expand"
    /\ cur < Len(seen)
    /\ SetObj(Visit(Obj, trans, start, seen[cur + 1], do_nop, do_unusual))
    /\ cur' = cur + 1
    /\ visited' = Append(visited, cur)
    /\ UNCHANGED <<pc, lines, li, base_state, trans, start, start_trans, do_nop,
                   do_unusual, ret, cluster_cnt, ui, res, keys, ki, si, ti>>

\* the end of the while loop, the sink pass and the return, state.py:48, 58-60
Finish ==
    /\ pc = "expand"
    /\ ~(cur < Len(seen))
    /\ SetObj(Sinks(Obj, 1))
    /\ pc' = ret
    /\ UNCHANGED <<lines, li, base_state, trans, start, cur, start_trans, do_nop,
                   do_unusual, ret, cluster_cnt, ui, res, keys, ki, si, ti, visited>>

\* state.py:93-102, an unusual input no transition uses
UnusualSkip ==
    /\ pc = "unusual_loop"
    /\ ui <= Len(unusual)
    /\ GroupKeys(trans, unusual[ui]) = {}
    /\ res' = ResOf(trans, unusual[ui])
    /\ ui' = ui + 1
    /\ UNCHANGED <<pc, lines, li, base_state, trans, start, count, seen, nonsink,
                   cur, start_trans, do_nop, do_unusual, ret, stdout, cluster_cnt,
                   keys, ki, si, ti, visited>>

\* state.py:93-109, an unusual input some transition uses
UnusualCluster ==
    /\ pc = "unusual_loop"
    /\ ui <= Len(unusual)
    /\ GroupKeys(trans, unusual[ui]) # {}
    /\ res' = ResOf(trans, unusual[ui])
    /\ cluster_cnt' = cluster_cnt + 1
    /\ stdout' = stdout \o
         << TextLine("subgraph", cluster_cnt + 1,
                     " subgraph cluster_" \o ToString(cluster_cnt + 1) \o " {"),
            TextLine("error_label", unusual[ui],
                     "   label = \"error path " \o unusual[ui] \o "\""),
            TextLine("rankdir", "TB", "   rankdir=TB;") >>
    /\ keys' = SortedKeySet(GroupKeys(trans, unusual[ui]))
    /\ ki' = 1
    /\ pc' = "group_loop"
    /\ UNCHANGED <<lines, li, base_state, trans, start, count, seen, nonsink, cur,
                   start_trans, do_nop, do_unusual, ret, ui, si, ti, visited>>

\* the end of the loop at state.py:93
UnusualDone ==
    /\ pc = "unusual_loop"
    /\ ui > Len(unusual)
    /\ si' = 1
    /\ pc' = "start_loop"
    /\ UNCHANGED <<lines, li, base_state, trans, start, count, seen, nonsink, cur,
                   start_trans, do_nop, do_unusual, ret, stdout, cluster_cnt, ui,
                   res, keys, ki, ti, visited>>

\* state.py:109-112
GroupCall ==
    /\ pc = "group_loop"
    /\ ki <= Len(keys)
    /\ Call(Obj, GroupStart(res, keys[ki], unusual[ui]), FALSE, FALSE, "group_loop")
    /\ ki' = ki + 1
    /\ UNCHANGED <<lines, li, base_state, trans, start, cluster_cnt, ui, res, keys,
                   si, ti>>

\* the end of the loop at state.py:109, and state.py:114
GroupEnd ==
    /\ pc = "group_loop"
    /\ ki > Len(keys)
    /\ stdout' = Append(stdout, TextLine("close", cluster_cnt, " }"))
    /\ ui' = ui + 1
    /\ pc' = "unusual_loop"
    /\ UNCHANGED <<lines, li, base_state, trans, start, count, seen, nonsink, cur,
                   start_trans, do_nop, do_unusual, ret, cluster_cnt, res, keys, ki,
                   si, ti, visited>>

\* state.py:116-119
StartCluster ==
    /\ pc = "start_loop"
    /\ si <= Len(start)
    /\ cluster_cnt' = cluster_cnt + 1
    /\ stdout' = stdout \o
         << TextLine("subgraph", cluster_cnt + 1,
                     " subgraph cluster_" \o ToString(cluster_cnt + 1) \o " {"),
            TextLine("start_label", start[si],
                     "   label = \"" \o start[si] \o "\"") >>
    /\ ti' = 1
    /\ pc' = "trans_loop"
    /\ UNCHANGED <<lines, li, base_state, trans, start, count, seen, nonsink, cur,
                   start_trans, do_nop, do_unusual, ret, ui, res, keys, ki, si,
                   visited>>

\* the end of the loop at state.py:116, and state.py:126
StartDone ==
    /\ pc = "start_loop"
    /\ si > Len(start)
    /\ stdout' = Append(stdout, TextLine("end", 0, "}"))
    /\ pc' = "done"
    /\ UNCHANGED <<lines, li, base_state, trans, start, count, seen, nonsink, cur,
                   start_trans, do_nop, do_unusual, ret, cluster_cnt, ui, res, keys,
                   ki, si, ti, visited>>

\* NotStartTrans without the test of the input
NotStartTrans_AnyInput(t, s) == t[1] # s

\* the two tests at state.py:121-122
NotStartTrans(t, s) == t[1] # s \/ t[3] \in Range(unusual)

\* state.py:120-122, a transition that starts no cluster of start[si]
TransSkip ==
    /\ pc = "trans_loop"
    /\ ti <= Len(trans)
    /\ NotStartTrans(trans[ti], start[si])
    /\ ti' = ti + 1
    /\ UNCHANGED <<pc, lines, li, base_state, trans, start, count, seen, nonsink,
                   cur, start_trans, do_nop, do_unusual, ret, stdout, cluster_cnt,
                   ui, res, keys, ki, si, visited>>

\* state.py:120-123
TransCall ==
    /\ pc = "trans_loop"
    /\ ti <= Len(trans)
    /\ ~NotStartTrans(trans[ti], start[si])
    /\ Call(Obj, trans[ti], FALSE, FALSE, "trans_loop")
    /\ ti' = ti + 1
    /\ UNCHANGED <<lines, li, base_state, trans, start, cluster_cnt, ui, res, keys,
                   ki, si>>

\* the end of the loop at state.py:120, and state.py:124
TransEnd ==
    /\ pc = "trans_loop"
    /\ ti > Len(trans)
    /\ stdout' = Append(stdout, TextLine("close", cluster_cnt, " }"))
    /\ si' = si + 1
    /\ pc' = "start_loop"
    /\ UNCHANGED <<lines, li, base_state, trans, start, count, seen, nonsink, cur,
                   start_trans, do_nop, do_unusual, ret, cluster_cnt, ui, res, keys,
                   ki, ti, visited>>

\* state.py:90-91
Prologue ==
    << TextLine("digraph", 0, "digraph lightning {"),
       TextLine("rankdir", "LR", " rankdir=LR;") >>

\* The script after state.py:91, for a STATES table that parsed into trans
\* without a transition line before the first state line.
Init ==
    /\ trans \in TransSets
    /\ lines = FileOf(trans)
    /\ li = Len(FileOf(trans)) + 1
    /\ base_state = IF trans = <<>> THEN None ELSE trans[Len(trans)][1]
    /\ start = StartOf(trans)
    /\ count = 0
    /\ seen = <<>>
    /\ nonsink = {}
    /\ cur = 0
    /\ start_trans = <<>>
    /\ do_nop = FALSE
    /\ do_unusual = FALSE
    /\ ret = "none"
    /\ stdout = Prologue
    /\ cluster_cnt = 0
    /\ ui = 1
    /\ res = <<>>
    /\ keys = <<>>
    /\ ki = 1
    /\ si = 1
    /\ ti = 1
    /\ visited = <<>>
    /\ pc = "unusual_loop"

Next ==
    \/ UnusualSkip
    \/ UnusualCluster
    \/ UnusualDone
    \/ GroupCall
    \/ GroupEnd
    \/ StartCluster
    \/ StartDone
    \/ TransSkip
    \/ TransCall
    \/ TransEnd
    \/ Expand
    \/ Finish

Spec == Init /\ [][Next]_vars

(***************************************************************************)
(* Calls of Subgraph.start on one object, with any flags: the Cluster      *)
(* Builder on its own.  Here stdout holds the lines of the latest call.    *)
(***************************************************************************)
\* the starting transitions start is called with: any record of tr (state.py:123
\* passes those of the Start States) and the start_trans of any group (state.py:112)
StartCandidates(tr) ==
    Range(tr) \cup
    {GroupStart(ResOf(tr, unusual[k]), key, unusual[k]) :
        <<k, key>> \in {x \in (1..Len(unusual)) \X
                                 UNION {GroupKeys(tr, unusual[j]) : j \in 1..Len(unusual)} :
                        x[2] \in GroupKeys(tr, unusual[x[1]])}}

InitBuilder ==
    /\ trans \in BuilderSets
    /\ lines = FileOf(trans)
    /\ li = Len(FileOf(trans)) + 1
    /\ base_state = IF trans = <<>> THEN None ELSE trans[Len(trans)][1]
    /\ start = StartOf(trans)
    /\ count = 0
    /\ seen = <<>>
    /\ nonsink = {}
    /\ cur = 0
    /\ start_trans = <<>>
    /\ do_nop = FALSE
    /\ do_unusual = FALSE
    /\ ret = "none"
    /\ stdout = <<>>
    /\ cluster_cnt = 0
    /\ ui = 1
    /\ res = <<>>
    /\ keys = <<>>
    /\ ki = 1
    /\ si = 1
    /\ ti = 1
    /\ visited = <<>>
    /\ pc = "idle"

\* sg.start(t, trans, nop, unu), state.py:40-47
Invoke ==
    /\ pc = "idle"
    /\ count < MaxInvocations
    /\ \E t \in StartCandidates(trans), nop \in BOOLEAN, unu \in BOOLEAN :
          Call([Obj EXCEPT !.stdout = <<>>], t, nop, unu, "idle")
    /\ UNCHANGED <<lines, li, base_state, trans, start, cluster_cnt, ui, res, keys,
                   ki, si, ti>>

NextBuilder ==
    \/ Invoke
    \/ Expand
    \/ Finish

SpecBuilder == InitBuilder /\ [][NextBuilder]_vars

(***************************************************************************)
(* Calls of Subgraph.start on a longer table: an error transition from A,  *)
(* a chain B, D, E, F and a state named A_O, the key of the origin of A,   *)
(* that leads to C in one step.  No state of it is a Start State.          *)
(***************************************************************************)
\* STATES: A: PKT_ERROR -> B;  B: X -> A_O, Y -> D;  A_O: X -> C;  D: X -> E;
\* E: X -> F, Y -> C
DeepTable ==
    << <<"A", "B", "PKT_ERROR", None>>,
       <<"B", "A_O", "X", None>>,
       <<"B", "D", "Y", None>>,
       <<"A_O", "C", "X", None>>,
       <<"D", "E", "X", None>>,
       <<"E", "F", "X", None>>,
       <<"E", "C", "Y", None>> >>

\* the tables made of some of the lines of q, in their order
RECURSIVE SubTables(_)
SubTables(q) ==
    IF q = <<>> THEN {<<>>}
    ELSE LET r == SubTables(Tail(q))
         IN  r \cup {<<Head(q)>> \o x : x \in r}

InitDeep ==
    /\ trans \in SubTables(DeepTable)
    /\ lines = FileOf(trans)
    /\ li = Len(FileOf(trans)) + 1
    /\ base_state = IF trans = <<>> THEN None ELSE trans[Len(trans)][1]
    /\ start = StartOf(trans)
    /\ count = 0
    /\ seen = <<>>
    /\ nonsink = {}
    /\ cur = 0
    /\ start_trans = <<>>
    /\ do_nop = FALSE
    /\ do_unusual = FALSE
    /\ ret = "none"
    /\ stdout = <<>>
    /\ cluster_cnt = 0
    /\ ui = 1
    /\ res = <<>>
    /\ keys = <<>>
    /\ ki = 1
    /\ si = 1
    /\ ti = 1
    /\ visited = <<>>
    /\ pc = "idle"

SpecDeep == InitDeep /\ [][NextBuilder]_vars

(***************************************************************************)
(* The parser loop and the Start States, state.py:8-32.                    *)
(***************************************************************************)
LineUniverse ==
    { "INIT:\n", "A:\n", "A:",
      "  X -> A\n", "  X -> B (P)\n", " PKT_ERROR->INIT\n", "\tY -> INIT_O",
      "\n", "   garbage line\n", "  X -> A (P\n",
      VTab \o "Y" \o VTab \o "->" \o VTab \o "B" \o VTab \o "\n" }

\* what readlines() can return: only the last line can lack its newline
Files ==
    {f \in UNION {[1..n -> LineUniverse] : n \in 0..MaxLines} :
        \A k \in 1..(Len(f) - 1) : CharAt(f[k], Len(f[k])) = "\n"}

InitParse ==
    /\ lines \in Files
    /\ li = 1
    /\ base_state = None
    /\ trans = <<>>
    /\ start = <<>>
    /\ count = 0
    /\ seen = <<>>
    /\ nonsink = {}
    /\ cur = 0
    /\ start_trans = <<>>
    /\ do_nop = FALSE
    /\ do_unusual = FALSE
    /\ ret = "none"
    /\ stdout = <<>>
    /\ cluster_cnt = 0
    /\ ui = 1
    /\ res = <<>>
    /\ keys = <<>>
    /\ ki = 1
    /\ si = 1
    /\ ti = 1
    /\ visited = <<>>
    /\ pc = "parse"

\* state.py:15-19
ParseState ==
    /\ pc = "parse"
    /\ li <= Len(lines)
    /\ MatchState(lines[li]) # <<>>
    /\ base_state' = MatchState(lines[li])[1]
    /\ li' = li + 1
    /\ UNCHANGED <<pc, lines, trans, start, count, seen, nonsink, cur, start_trans,
                   do_nop, do_unusual, ret, stdout, cluster_cnt, ui, res, keys, ki,
                   si, ti, visited>>

\* the record appended at state.py:22-23
Record(base, m) == <<base, m[2], m[1], m[3]>>

\* state.py:15-16, 20-24
ParseTrans ==
    /\ pc = "parse"
    /\ li <= Len(lines)
    /\ MatchState(lines[li]) = <<>>
    /\ MatchTrans(lines[li]) # <<>>
    /\ trans' = Append(trans, Record(base_state, MatchTrans(lines[li])))
    /\ li' = li + 1
    /\ UNCHANGED <<pc, lines, base_state, start, count, seen, nonsink, cur,
                   start_trans, do_nop, do_unusual, ret, stdout, cluster_cnt, ui,
                   res, keys, ki, si, ti, visited>>

\* ParseError that also forgets the current base state
ParseError_ResetBase ==
    /\ pc = "parse"
    /\ li <= Len(lines)
    /\ MatchState(lines[li]) = <<>>
    /\ MatchTrans(lines[li]) = <<>>
    /\ stdout' = Append(stdout, ErrorLine(lines[li]))
    /\ base_state' = None
    /\ li' = li + 1
    /\ UNCHANGED <<pc, lines, trans, start, count, seen, nonsink, cur,
                   start_trans, do_nop, do_unusual, ret, cluster_cnt, ui, res, keys,
                   ki, si, ti, visited>>

\* state.py:15-16, 20, 25
ParseError ==
    /\ pc = "parse"
    /\ li <= Len(lines)
    /\ MatchState(lines[li]) = <<>>
    /\ MatchTrans(lines[li]) = <<>>
    /\ stdout' = Append(stdout, ErrorLine(lines[li]))
    /\ li' = li + 1
    /\ UNCHANGED <<pc, lines, base_state, trans, start, count, seen, nonsink, cur,
                   start_trans, do_nop, do_unusual, ret, cluster_cnt, ui, res, keys,
                   ki, si, ti, visited>>

\* the end of the parser loop and state.py:27-32
ComputeStart ==
    /\ pc = "parse"
    /\ li > Len(lines)
    /\ ~StartRaises(trans)
    /\ start' = StartOf(trans)
    /\ pc' = "parsed"
    /\ UNCHANGED <<lines, li, base_state, trans, count, seen, nonsink, cur,
                   start_trans, do_nop, do_unusual, ret, stdout, cluster_cnt, ui,
                   res, keys, ki, si, ti, visited>>

\* the end of the parser loop and state.py:27-32 when "INIT" in s raises TypeError
ComputeStartRaises ==
    /\ pc = "parse"
    /\ li > Len(lines)
    /\ StartRaises(trans)
    /\ pc' = "raised"
    /\ UNCHANGED <<lines, li, base_state, trans, start, count, seen, nonsink, cur,
                   start_trans, do_nop, do_unusual, ret, stdout, cluster_cnt, ui,
                   res, keys, ki, si, ti, visited>>

NextParse ==
    \/ ParseState
    \/ ParseTrans
    \/ ParseError
    \/ ComputeStart
    \/ ComputeStartRaises

SpecParse == InitParse /\ [][NextParse]_vars

(***************************************************************************)
(* Reading the printed lines.                                              *)
(***************************************************************************)
\* the indices in stdout of the lines of one kind that call number n of start printed
LinesOf(kind, n) ==
    {j \in 1..Len(stdout) : stdout[j].kind = kind /\ stdout[j].inv = n}

\* the latest call of start has returned
Returned == pc # "expand" /\ count > 0

\* the identifiers under which the k-th entry of seen was declared by the latest call
DeclaredIds(k) ==
    {stdout[j].id : j \in {i \in LinesOf("node", count) : stdout[i].key = seen[k]}}

\* the k-th entry of seen was emitted with sink styling by the latest call
SinkStyled(k) == \E j \in LinesOf("sink", count) : stdout[j].key = seen[k]

\* the latest call emitted an edge whose source is the node of the k-th entry of seen
HasEdgeFrom(k) == \E j \in LinesOf("edge", count) : stdout[j].i \in DeclaredIds(k)

\* the expanded (non-initial) edges of the latest call
ExpandedEdges == {j \in LinesOf("edge", count) : ~stdout[j].first}

(***************************************************************************)
(* C1.  Sink correctness: when a call of Subgraph.start has returned, an   *)
(* entry of the seen-list was emitted with sink styling if and only if the *)
(* call emitted no edge with that node as source (the starting edge        *)
(* included); the origin, the first entry, is never styled as a sink.      *)
(***************************************************************************)
\* C1: sink styling if and only if no edge leaves the node; never for the origin.
C1_SinkCorrectness ==
    Returned =>
        /\ \A k \in 1..Len(seen) : SinkStyled(k) <=> ~HasEdgeFrom(k)
        /\ ~SinkStyled(1)

\* a returned call with a sink, and with a regular node that has an outgoing edge
C1_Witness ==
    /\ Returned
    /\ \E k \in 2..Len(seen) : SinkStyled(k)
    /\ \E k \in 2..Len(seen) : HasEdgeFrom(k) /\ ~SinkStyled(k)

(***************************************************************************)
(* C2.  Boundary: a Start State that is the destination of an edge of a    *)
(* call of Subgraph.start is appended to the seen-list as a regular entry  *)
(* and declared as a node, and the call emits no edge with that regular    *)
(* node as source, whatever the flags.                                     *)
(***************************************************************************)
\* C2: every Start State that is the destination of an edge is a regular entry
\* of seen, is declared, and is the source of no expanded edge.
C2_Boundary ==
    \A j \in LinesOf("edge", count) :
        stdout[j].t[2] \in Range(start) =>
            /\ \E k \in 2..Len(seen) : seen[k] = stdout[j].t[2]
            /\ \E i \in LinesOf("node", count) :
                  stdout[i].id = stdout[j].o /\ stdout[i].label = stdout[j].t[2]
            /\ \A i \in ExpandedEdges : stdout[i].i # stdout[j].o

\* the part of C2 about edges alone: no expanded edge leaves a Start State
C2_NoEdgeFromStartState ==
    \A i \in ExpandedEdges : stdout[i].t[1] \notin Range(start)

(***************************************************************************)
(* C3.  With default flags (do_nop and do_unusual off) no expanded edge of *)
(* a call of Subgraph.start is a self-loop and none has an unusual input.  *)
(***************************************************************************)
\* C3: with default flags no expanded edge is a self-loop or has an unusual input.
C3_DefaultSkips ==
    (~do_nop /\ ~do_unusual) =>
        \A j \in ExpandedEdges :
            /\ stdout[j].t[1] # stdout[j].t[2]
            /\ stdout[j].t[3] \notin Range(unusual)

\* a returned call with default flags that expanded a state which has a self-loop
\* and a transition on an unusual input, and emitted an expanded edge from it
C3_Witness ==
    /\ Returned
    /\ ~do_nop /\ ~do_unusual
    /\ \E j \in ExpandedEdges :
          /\ \E k \in 1..Len(trans) :
                trans[k][1] = stdout[j].t[1] /\ trans[k][1] = trans[k][2]
          /\ \E k \in 1..Len(trans) :
                trans[k][1] = stdout[j].t[1] /\ trans[k][3] \in Range(unusual)

(***************************************************************************)
(* C4.  Every emitted edge corresponds to an input Transition.             *)
(***************************************************************************)
\* the record (from_state, to_state, input, output) an edge line shows
EdgeRecord(e) == <<e.t[1], e.t[2], e.t[3], Pkt(e.t)>>

\* the first position from k on where the two characters backslash, n start
RECURSIVE NextSep(_, _)
NextSep(s, k) ==
    IF k > Len(s) THEN k
    ELSE IF CharAt(s, k) = "\\" /\ CharAt(s, k + 1) = "n" THEN k
    ELSE NextSep(s, k + 1)

\* s.split("\\n")
RECURSIVE Split(_)
Split(s) ==
    LET j == NextSep(s, 1)
    IN  IF j > Len(s) THEN <<s>>
        ELSE <<SubSeq(s, 1, j - 1)>> \o Split(SubSeq(s, j + 2, Len(s)))

AllEdges == {j \in 1..Len(stdout) : stdout[j].kind = "edge"}

\* C4 as claimed: every emitted edge of the run has the from_state, to_state,
\* input and output of exactly one Transition of the Transition Set.
C4_ExactlyOneTransition ==
    \A j \in AllEdges :
        Cardinality({k \in 1..Len(trans) : trans[k] = EdgeRecord(stdout[j])}) = 1

\* C4 as amended: every emitted edge of the run has the to_state, input and
\* output of at least one Transition whose from_state is the from_state of the
\* edge; the from_state of the initial edge of an error-path cluster is the
\* newline-joined list of origin names, and each joined name is the from_state
\* of such a Transition.  No other edge has a joined from_state.
C4_EdgesFromTransitions ==
    \A j \in AllEdges :
        LET e == stdout[j]
            names == Split(e.t[1])
        IN  /\ \A n \in Range(names) :
                  \E k \in 1..Len(trans) :
                      trans[k] = <<n, e.t[2], e.t[3], Pkt(e.t)>>
            /\ Len(names) > 1 => e.first /\ e.t[3] \in Range(unusual)

\* a finished run with an initial edge from a joined origin and an expanded edge
C4_Witness ==
    /\ pc = "done"
    /\ \E j \in AllEdges : stdout[j].first /\ Len(Split(stdout[j].t[1])) > 1
    /\ \E j \in AllEdges : ~stdout[j].first

(***************************************************************************)
(* C5.  Termination: whatever the Transition Set, the starting transition  *)
(* and the flags, the while loop of Subgraph.start ends.  The loop visits  *)
(* the entries of the seen-list in turn, each at most once; the seen-list  *)
(* never holds more entries than the origin and the states of the          *)
(* Transition Set; so the number of entries still to visit is never        *)
(* negative, and every iteration of the loop makes it smaller.             *)
(***************************************************************************)
\* the entries the while loop of the running call has visited are all different
NoRevisit ==
    \A a \in 1..Len(visited) : \A b \in 1..Len(visited) :
        a # b => seen[visited[a] + 1] # seen[visited[b] + 1]

\* an upper bound of the number of iterations the while loop has left
Variant == Cardinality(StatesOf(trans)) + 1 - cur

LoopInvariant ==
    pc = "expand" =>
        /\ NoRevisit
        /\ visited = [k \in 1..(cur - 1) |-> k]
        /\ cur <= Len(seen)
        /\ Len(seen) <= Cardinality(StatesOf(trans)) + 1
        /\ Variant >= 0

\* C5: the loop invariant holds throughout, and every iteration of the while
\* loop lowers the bound of the iterations left, so the loop ends.
C5_Termination ==
    /\ []LoopInvariant
    /\ [][pc = "expand" /\ pc' = "expand" => Variant' < Variant]_vars

\* a call with both flags on that has followed a cycle of two states and emitted
\* a self-loop, at the end of its while loop
C5_Witness ==
    /\ pc = "expand"
    /\ cur = Len(seen)
    /\ do_nop /\ do_unusual
    /\ \E i \in ExpandedEdges : stdout[i].t[1] = stdout[i].t[2]
    /\ \E i \in ExpandedEdges : \E j \in ExpandedEdges :
          /\ stdout[i].t[1] # stdout[i].t[2]
          /\ stdout[i].t[1] = stdout[j].t[2]
          /\ stdout[i].t[2] = stdout[j].t[1]

(***************************************************************************)
(* C6.  Determinism and independence from history: what a call of          *)
(* Subgraph.start leaves and prints is, but for the counter, what the same *)
(* call leaves and prints on a new Subgraph object: the same seen-list,    *)
(* the same sequence of node, edge and sink lines.                         *)
(***************************************************************************)
\* a printed line of start without the counter
Shape(l) ==
    IF l.kind = "node" THEN <<"node", l.key, l.label>>
    ELSE IF l.kind = "edge" THEN <<"edge", l.t, l.first, l.lbl>>
    ELSE <<"sink", l.key>>

\* the node, edge and sink lines of call number n among out, without the counter
Shapes(out, n) ==
    LET sel == SelectSeq(out, LAMBDA l : l.kind \in {"node", "edge", "sink"} /\ l.inv = n)
    IN  [k \in 1..Len(sel) |-> Shape(sel[k])]

\* the same call on a new object
Fresh == StartAll(NewSubgraph, start_trans, trans, start, do_nop, do_unusual)

\* C6: a returned call left and printed what the same call on a new object does.
C6_Determinism ==
    Returned =>
        /\ seen = Fresh.seen
        /\ nonsink = Fresh.nonsink
        /\ Shapes(stdout, count) = Shapes(Fresh.stdout, 1)

\* a second call on the same object has returned, with an expansion and a sink
C6_Witness ==
    /\ Returned
    /\ count >= 2
    /\ Len(seen) >= 3
    /\ \E k \in 2..Len(seen) : SinkStyled(k)

(***************************************************************************)
(* C7.  The counter grows by one at each call of Subgraph.start, and an    *)
(* identifier printed by one call is printed by no other call of the run.  *)
(***************************************************************************)
\* the identifiers in the lines of call number n
IdsOf(n) ==
    {stdout[j].id : j \in LinesOf("node", n) \cup LinesOf("sink", n)}
    \cup {stdout[j].i : j \in LinesOf("edge", n)}
    \cup {stdout[j].o : j \in LinesOf("edge", n)}

\* the initial edges of the run, in the order printed
InitialEdges == SelectSeq(stdout, LAMBDA l : l.kind = "edge" /\ l.first)

\* C7: the k-th call of the run prints with counter k, and no identifier is
\* printed by two different calls.
C7_CounterUnique ==
    /\ Len(InitialEdges) = count
    /\ \A k \in 1..Len(InitialEdges) : InitialEdges[k].inv = k
    /\ \A n \in 1..count : \A m \in 1..count : n # m => IdsOf(n) \cap IdsOf(m) = {}

\* a finished run where two calls declared the same state and one call had a
\* joined origin
C7_Witness ==
    /\ pc = "done"
    /\ \E n \in 1..count : \E m \in 1..count :
          /\ n # m
          /\ \E i \in LinesOf("node", n) : \E j \in LinesOf("node", m) :
                stdout[i].label = stdout[j].label
    /\ \E n \in 1..count : \E i \in LinesOf("node", n) :
          Len(Split(stdout[i].label)) > 1

(***************************************************************************)
(* C8.  The grouping of an unusual input u maps each pair (to_state,       *)
(* output) reached on u to the set of the from_states that reach it on u;  *)
(* Subgraph.start is called once per pair, and its origin label is the     *)
(* sorted newline-joined list of that set, each name once.                 *)
(***************************************************************************)
\* the set of the from_states that reach the pair key on input u
OriginSet(u, key) ==
    {trans[k][1] : k \in {j \in 1..Len(trans) : trans[j][3] = u /\ KeyOf(trans[j]) = key}}

\* the initial edges printed for the pair key of input u
GroupEdges(u, key) ==
    {j \in AllEdges : /\ stdout[j].first
                      /\ stdout[j].t[3] = u
                      /\ KeyOf(stdout[j].t) = key}

\* C8: at the end of the run every pair of every unusual input has exactly one
\* initial edge, and its origin label joins the sorted set of the origins.
C8_GroupsAreSets ==
    pc = "done" =>
        \A i \in 1..Len(unusual) : \A key \in GroupKeys(trans, unusual[i]) :
            /\ Cardinality(GroupEdges(unusual[i], key)) = 1
            /\ \A j \in GroupEdges(unusual[i], key) :
                  stdout[j].t[1] = Join("\\n", SortedStrSet(OriginSet(unusual[i], key)))

(***************************************************************************)
(* C9.  Cluster ordering: every error-path cluster is printed before every *)
(* start-state cluster; the error-path clusters come in the order of the   *)
(* list unusual, one for each unusual input some transition uses and none  *)
(* for the others; the start-state clusters come in sorted order of the    *)
(* Start State names, one for each Start State.                            *)
(***************************************************************************)
\* the label lines of the clusters, in the order printed
ClusterLabels ==
    SelectSeq(stdout, LAMBDA l : l.kind \in {"error_label", "start_label"})

\* the position of u in the list unusual
UnusualIndex(u) == CHOOSE k \in 1..Len(unusual) : unusual[k] = u

UsedInputs == {trans[k][3] : k \in 1..Len(trans)}

\* C9: error-path clusters first and in the order of unusual, only for inputs in
\* use; start-state clusters in sorted order; at the end all of them are there.
C9_ClusterOrder ==
    LET L == ClusterLabels
    IN  /\ \A a \in 1..Len(L) : \A b \in 1..Len(L) :
              a < b =>
                /\ L[a].kind = "start_label" => L[b].kind = "start_label"
                /\ L[a].kind = "error_label" /\ L[b].kind = "error_label"
                      => UnusualIndex(L[a].arg) < UnusualIndex(L[b].arg)
                /\ L[a].kind = "start_label" /\ L[b].kind = "start_label"
                      => StrLess(L[a].arg, L[b].arg)
        /\ \A a \in 1..Len(L) :
              L[a].kind = "error_label" => L[a].arg \in UsedInputs
        /\ pc = "done" =>
              /\ {L[a].arg : a \in {x \in 1..Len(L) : L[x].kind = "error_label"}}
                    = Range(unusual) \cap UsedInputs
              /\ {L[a].arg : a \in {x \in 1..Len(L) : L[x].kind = "start_label"}}
                    = {x \in StatesOf(trans) : IsStart(x)}

\* a finished run with two error-path clusters and two start-state clusters
C9_Witness ==
    /\ pc = "done"
    /\ Cardinality({a \in 1..Len(ClusterLabels) :
                        ClusterLabels[a].kind = "error_label"}) = 2
    /\ Cardinality({a \in 1..Len(ClusterLabels) :
                        ClusterLabels[a].kind = "start_label"}) = 2

(***************************************************************************)
(* C10.  Transition record invariant: every record of the Transition Set   *)
(* has a from_state, a to_state and an input that are present and not      *)
(* empty, also when a transition line comes before any state line.         *)
(***************************************************************************)
\* a present and non-empty name
Present(x) == x # None /\ Len(x) > 0

\* C10: from_state, to_state and input of every record are present and not
\* empty, and an output that is present is not empty.
C10_RecordsComplete ==
    \A k \in 1..Len(trans) :
        /\ Present(trans[k][1])
        /\ Present(trans[k][2])
        /\ Present(trans[k][3])
        /\ trans[k][4] # None => Len(trans[k][4]) > 0

(***************************************************************************)
(* C11.  Malformed-line handling: a line that matches neither pattern is   *)
(* reported once, adds no record, leaves the base state as it is, and the  *)
(* lines after it are parsed as if it were not there.                      *)
(***************************************************************************)
\* the line matches one of the two patterns
WellFormed(l) == MatchState(l) # <<>> \/ MatchTrans(l) # <<>>

\* the base state and the records that a table of well-formed lines gives
RECURSIVE ParseWellFormed(_, _, _)
ParseWellFormed(f, base, tr) ==
    IF f = <<>> THEN <<base, tr>>
    ELSE IF MatchState(Head(f)) # <<>>
         THEN ParseWellFormed(Tail(f), MatchState(Head(f))[1], tr)
         ELSE ParseWellFormed(Tail(f), base,
                              Append(tr, Record(base, MatchTrans(Head(f)))))

\* the lines the parser loop has read so far
LinesRead == SubSeq(lines, 1, li - 1)

\* the lines named by the parse errors reported so far, in order
ErrorsReported ==
    LET e == SelectSeq(stdout, LAMBDA l : l.kind = "error")
    IN  [k \in 1..Len(e) |-> e[k].arg]

\* C11: the errors reported are the malformed lines read, one each and in order,
\* and the base state and the records are those of the well-formed lines alone.
C11_MalformedLines ==
    pc \in {"parse", "parsed", "raised"} =>
        /\ ErrorsReported = SelectSeq(LinesRead, LAMBDA l : ~WellFormed(l))
        /\ <<base_state, trans>> =
              ParseWellFormed(SelectSeq(LinesRead, WellFormed), None, <<>>)

\* a parsed table with a malformed line between a state line and a transition
\* line that was recorded under that state
C11_Witness ==
    /\ pc = "parsed"
    /\ \E k \in 2..(Len(lines) - 1) :
          /\ ~WellFormed(lines[k])
          /\ MatchState(lines[k - 1]) # <<>>
          /\ MatchTrans(lines[k + 1]) # <<>>
    /\ Len(trans) = 1
    /\ Len(ErrorsReported) = 1

(***************************************************************************)
(* C12.  Start-state clusters: each Start State has exactly one labelled   *)
(* cluster, and inside it Subgraph.start is called once for each record of *)
(* the Transition Set that leaves the state on an input that is not        *)
(* unusual, in the order of the Transition Set, and for nothing else.      *)
(***************************************************************************)
\* the label lines of the start-state cluster of s
StartLabels(s) ==
    {j \in 1..Len(stdout) : stdout[j].kind = "start_label" /\ stdout[j].arg = s}

\* the line that closes the cluster whose label line is line j
CloseOf(j) ==
    CHOOSE c \in (j + 1)..Len(stdout) :
        /\ stdout[c].kind = "close"
        /\ \A d \in (j + 1)..(c - 1) : stdout[d].kind # "close"

\* the starting transitions of the calls made inside the cluster labelled at
\* line j, in the order of the calls
CallsIn(j) ==
    LET e == SelectSeq(SubSeq(stdout, j + 1, CloseOf(j) - 1),
                       LAMBDA l : l.kind = "edge" /\ l.first)
    IN  [k \in 1..Len(e) |-> e[k].t]

\* the records that leave s on an input that is not unusual, in order
StartTransOf(s) ==
    SelectSeq(trans, LAMBDA t : t[1] = s /\ t[3] \notin Range(unusual))

\* C12: at the end of the run each Start State has one cluster, opened by a
\* subgraph line, whose calls are the records leaving the state on a usual input.
C12_StartClusters ==
    pc = "done" =>
        \A s \in {x \in StatesOf(trans) : IsStart(x)} :
            /\ Cardinality(StartLabels(s)) = 1
            /\ \A j \in StartLabels(s) :
                  /\ stdout[j - 1].kind = "subgraph"
                  /\ CallsIn(j) = StartTransOf(s)

\* a finished run with a Start State of two calls that also has a record on an
\* unusual input, and a Start State of no call
C12_Witness ==
    /\ pc = "done"
    /\ \E s \in Range(start) :
          /\ Len(StartTransOf(s)) = 2
          /\ \E k \in 1..Len(trans) :
                trans[k][1] = s /\ trans[k][3] \in Range(unusual)
    /\ \E s \in Range(start) : \E j \in StartLabels(s) : CallsIn(j) = <<>>

(***************************************************************************)
(* C13.  Reachability: with default flags, when a call of Subgraph.start   *)
(* has returned, the regular entries of the seen-list are the least set    *)
(* that holds the to_state of the starting transition and is closed under  *)
(* following, from a member that is no Start State, every record that is   *)
(* no self-loop and whose input is not unusual.                            *)
(***************************************************************************)
\* the states one policy-filtered record away from a member of S that is no
\* Start State, together with S (filter: the flags nop and unu)
Follow(S, nop, unu) ==
    S \cup {trans[k][2] : k \in {j \in 1..Len(trans) :
                                    /\ trans[j][1] \in S
                                    /\ trans[j][1] \notin Range(start)
                                    /\ (trans[j][1] # trans[j][2] \/ nop)
                                    /\ (trans[j][3] \notin Range(unusual) \/ unu)}}

\* the least set that includes S and is closed under Follow
RECURSIVE Closure(_, _, _)
Closure(S, nop, unu) ==
    IF Follow(S, nop, unu) = S THEN S ELSE Closure(Follow(S, nop, unu), nop, unu)

\* the regular entries of the seen-list: all but the origin at index 0
RegularSeen == Range(SubSeq(seen, 2, Len(seen)))

\* the key of the origin of the running call is the name of no state
OriginKeyApart ==
    SrcKey(start_trans, TRUE) \notin StatesOf(trans) \cup {start_trans[2]}

\* C13: after a call with default flags the regular entries of the seen-list
\* are the states reachable from the to_state under the expansion policy.
C13_Reachability ==
    (Returned /\ ~do_nop /\ ~do_unusual) =>
        RegularSeen = Closure({start_trans[2]}, FALSE, FALSE)

\* C13 for the calls whose origin key is the name of no state
C13_ReachabilityApart ==
    (Returned /\ ~do_nop /\ ~do_unusual /\ OriginKeyApart) =>
        RegularSeen = Closure({start_trans[2]}, FALSE, FALSE)

(***************************************************************************)
(* C14.  No edge is dropped beyond the skip rules, whatever the flags: for *)
(* a regular entry st of the seen-list that is no Start State, a record    *)
(* that leaves st is emitted as an expanded edge, once per record, if and  *)
(* only if it is no self-loop or do_nop is on, and its input is not        *)
(* unusual or do_unusual is on.                                            *)
(***************************************************************************)
\* the expanded edges of the latest call that show the record t
EdgesOf(t) == {e \in ExpandedEdges : stdout[e].t = t}

\* the records of the Transition Set equal to t
RecordsOf(t) == {i \in 1..Len(trans) : trans[i] = t}

\* the flags of the running call let the record t through
Admitted(t) ==
    /\ (t[1] # t[2] \/ do_nop)
    /\ (t[3] \notin Range(unusual) \/ do_unusual)

\* C14: after a call every record leaving a regular entry of the seen-list that
\* is no Start State has one expanded edge per record if the flags admit it,
\* and none otherwise.
C14_NoEdgeDropped ==
    Returned =>
        \A k \in 2..Len(seen) :
            seen[k] \notin Range(start) =>
                \A j \in 1..Len(trans) :
                    trans[j][1] = seen[k] =>
                        Cardinality(EdgesOf(trans[j])) =
                            IF Admitted(trans[j])
                            THEN Cardinality(RecordsOf(trans[j]))
                            ELSE 0

\* a returned call with do_nop on and do_unusual off that expanded a state with
\* a self-loop, which it emitted, and a record on an unusual input, which it
\* did not
C14_Witness ==
    /\ Returned
    /\ do_nop /\ ~do_unusual
    /\ \E k \in 2..Len(seen) :
          /\ seen[k] \notin Range(start)
          /\ \E j \in 1..Len(trans) :
                /\ trans[j][1] = seen[k] /\ trans[j][2] = seen[k]
                /\ EdgesOf(trans[j]) # {}
          /\ \E j \in 1..Len(trans) :
                /\ trans[j][1] = seen[k] /\ trans[j][3] \in Range(unusual)
                /\ EdgesOf(trans[j]) = {}

(***************************************************************************)
(* C15.  Origin distinctness: for a starting transition whose from_state   *)
(* and to_state are names over [A-Z_]+, once the starting edge is emitted  *)
(* the seen-list has two entries, the origin of from_state first and the   *)
(* regular to_state second, the to_state is declared as a node of its own, *)
(* and the key of the origin is the key of no state of the Transition Set. *)
(***************************************************************************)
\* a non-empty string over [A-Z_]
IsName(x) == Len(x) > 0 /\ \A k \in 1..Len(x) : NameChar(CharAt(x, k))

\* the call of Subgraph.start has just emitted its starting edge (state.py:45)
StartingEdgeEmitted == pc = "expand" /\ cur = 1 /\ visited = <<>>

\* C15: after the starting edge the seen-list is the origin key and the
\* to_state, the to_state has its own node line, and the origin key is the
\* name of no state.
C15_OriginDistinct ==
    (StartingEdgeEmitted /\ IsName(start_trans[1]) /\ IsName(start_trans[2])) =>
        /\ Len(seen) = 2
        /\ seen[1] = SrcKey(start_trans, TRUE)
        /\ seen[2] = start_trans[2]
        /\ \E j \in LinesOf("node", count) :
              /\ stdout[j].id = DstId(start_trans, count)
              /\ stdout[j].label = start_trans[2]
        /\ SrcKey(start_trans, TRUE) \notin StatesOf(trans)

\* the first three parts of C15 for the calls whose origin key is the name of
\* no state
C15_OriginDistinctApart ==
    (StartingEdgeEmitted /\ OriginKeyApart) =>
        /\ Len(seen) = 2
        /\ seen[1] = SrcKey(start_trans, TRUE)
        /\ seen[2] = start_trans[2]
        /\ \E j \in LinesOf("node", count) :
              /\ stdout[j].id = DstId(start_trans, count)
              /\ stdout[j].label = start_trans[2]

(***************************************************************************)
(* C16.  Initial self-loop: with default flags a starting transition whose *)
(* to_state is its from_state is emitted exactly once by its call, as an   *)
(* edge from the origin node to the regular node of the state: the         *)
(* self-loop skip does not suppress it, and the expansion does not emit it *)
(* again.                                                                  *)
(***************************************************************************)
\* the edges of the latest call that show the starting transition
StartingEdges == {j \in LinesOf("edge", count) : stdout[j].t = start_trans}

\* the latest call has default flags and a self-loop as starting transition
SelfLoopStart ==
    /\ count > 0
    /\ ~do_nop /\ ~do_unusual
    /\ start_trans[1] = start_trans[2]

\* C16: from its start to its return, a call with default flags on a self-loop
\* has exactly one edge of the starting transition; it is the initial edge, it
\* goes from the origin node to another node, the regular node of the state,
\* and both nodes are declared.
C16_InitialSelfLoop ==
    SelfLoopStart =>
        /\ Cardinality(StartingEdges) = 1
        /\ \A j \in StartingEdges :
              /\ stdout[j].first
              /\ stdout[j].i = SrcId(start_trans, count, TRUE)
              /\ stdout[j].o = DstId(start_trans, count)
              /\ stdout[j].i # stdout[j].o
              /\ \E n \in LinesOf("node", count) :
                    /\ stdout[n].id = stdout[j].i
                    /\ stdout[n].key = SrcKey(start_trans, TRUE)
              /\ \E n \in LinesOf("node", count) :
                    /\ stdout[n].id = stdout[j].o
                    /\ stdout[n].key = start_trans[2]
                    /\ stdout[n].label = start_trans[2]

\* a returned call with default flags on a self-loop of a state that is no
\* Start State, so that the state was expanded, and that found a further state
C16_Witness ==
    /\ Returned
    /\ SelfLoopStart
    /\ start_trans[1] \notin Range(start)
    /\ start_trans \in Range(trans)
    /\ Len(seen) >= 3

(***************************************************************************)
(* C17.  Blank lines are not parse errors: a line is reported only if it   *)
(* is not blank and matches neither pattern; a blank line (empty, or a     *)
(* newline alone) gives no report and no record.                           *)
(***************************************************************************)
\* an empty line or a newline alone
IsBlank(l) == l = "" \/ l = "\n"

\* the lines read so far that are not blank
NonBlankRead == SelectSeq(LinesRead, LAMBDA l : ~IsBlank(l))

\* C17: every line reported is a non-blank line that matches neither pattern,
\* and the records are those of the non-blank lines.
C17_BlankLinesSilent ==
    pc \in {"parse", "parsed", "raised"} =>
        /\ \A k \in 1..Len(ErrorsReported) :
              ~IsBlank(ErrorsReported[k]) /\ ~WellFormed(ErrorsReported[k])
        /\ Len(trans) = Len(SelectSeq(NonBlankRead, LAMBDA l : MatchTrans(l) # <<>>))

\* the part of C17 that the parser keeps: a blank line gives no record, and
\* only lines that match neither pattern are reported
C17_BlankLinesNoRecord ==
    pc \in {"parse", "parsed", "raised"} =>
        /\ \A k \in 1..Len(ErrorsReported) : ~WellFormed(ErrorsReported[k])
        /\ Len(trans) = Len(SelectSeq(NonBlankRead, LAMBDA l : MatchTrans(l) # <<>>))

(***************************************************************************)
(* C18.  Breadth-first order: during a call of Subgraph.start the          *)
(* seen-list only grows at its end, its regular entries come in            *)
(* non-decreasing hop distance from the to_state of the starting           *)
(* transition, the distance taken in the graph of the records the policy   *)
(* lets through, and an entry is expanded only after all entries before it *)
(* have been expanded.                                                     *)
(***************************************************************************)
\* the number of hops from the set S to x in the policy-filtered graph, counted
\* from n; more than the number of records when x is out of reach
RECURSIVE HopsFrom(_, _, _)
HopsFrom(S, x, n) ==
    IF x \in S THEN n
    ELSE IF Follow(S, do_nop, do_unusual) = S THEN Len(trans) + 1
    ELSE HopsFrom(Follow(S, do_nop, do_unusual), x, n + 1)

\* the hop distance of x from the to_state of the starting transition
Hops(x) == HopsFrom({start_trans[2]}, x, 0)

\* the regular entries of the seen-list are in non-decreasing hop distance
SeenByDistance ==
    \A a \in 2..Len(seen) : \A b \in 2..Len(seen) :
        a < b => Hops(seen[a]) <= Hops(seen[b])

\* the entries are expanded in the order of the seen-list, none left out
ExpandedInOrder == visited = [k \in 1..Len(visited) |-> k] /\ Len(visited) < Len(seen)

\* C18: while a call runs and when it has returned, the regular entries of the
\* seen-list are in non-decreasing hop distance and were expanded in order.
C18_BreadthFirst ==
    count > 0 => SeenByDistance /\ ExpandedInOrder

\* C18 for the calls whose origin key is the name of no state
C18_BreadthFirstApart ==
    (count > 0 /\ OriginKeyApart) => SeenByDistance /\ ExpandedInOrder

\* the seen-list of a running call only grows at its end
C18_AppendOnly ==
    [][(pc = "expand" /\ count' = count) =>
          /\ Len(seen') >= Len(seen)
          /\ SubSeq(seen', 1, Len(seen)) = seen]_vars

(***************************************************************************)
(* C19.  Per-cluster node deduplication: at every point of a call of       *)
(* Subgraph.start no entry is in the seen-list twice, the nonsink-set      *)
(* holds only entries of the seen-list, and every node that is an endpoint *)
(* of an emitted edge of the call was declared exactly once by the call.   *)
(***************************************************************************)
\* the node lines of the latest call that declare the identifier id
Declarations(id) == {n \in LinesOf("node", count) : stdout[n].id = id}

\* no entry is in the seen-list twice
SeenOnce == \A a \in 1..Len(seen) : \A b \in 1..Len(seen) : seen[a] = seen[b] => a = b

\* both endpoints of every edge of the latest call are declared exactly once
EndpointsDeclared ==
    \A j \in LinesOf("edge", count) :
        /\ Cardinality(Declarations(stdout[j].i)) = 1
        /\ Cardinality(Declarations(stdout[j].o)) = 1

\* C19: from the start of a call on, the seen-list has no entry twice, the
\* nonsink-set is within it, and the endpoints of all edges are declared once.
C19_NodeDedup ==
    count > 0 =>
        /\ SeenOnce
        /\ nonsink \subseteq Range(seen)
        /\ EndpointsDeclared

\* the parts of C19 about the seen-list and the nonsink-set alone
C19_SeenAndNonsink ==
    count > 0 => SeenOnce /\ nonsink \subseteq Range(seen)

\* C19 for the calls whose origin key is the name of no state
C19_NodeDedupApart ==
    (count > 0 /\ OriginKeyApart) =>
        /\ SeenOnce
        /\ nonsink \subseteq Range(seen)
        /\ EndpointsDeclared

====
